---- MODULE Spec2Model ----
(***************************************************************************)
(* Mailsense: batch ingestion (gmail_api.get_messages_for_all_categories), *)
(* per-message processing (gmailhook/views.gmail_webhook), label           *)
(* resolution (gmail_api.create_or_get_label, apply_label) and the intent  *)
(* adapter (aimodel.predict_intent).                                       *)
(* The mail service and the zero-shot classifier are collaborators: every  *)
(* call to them is a step whose outcome is chosen nondeterministically.    *)
(***************************************************************************)
EXTENDS Integers, Sequences, FiniteSets, TLC

(***************************************************************************)
(* Bounds of the model.                                                    *)
(***************************************************************************)
\* message identifiers the mailbox holds are 1..MaxId (0 is a missing id)
MaxId == 2
\* longest listing the mail service returns for one category
MaxListLen == 2
\* the classifier's top-ranked label is one of the first MaxRank candidates
MaxRank == 1
\* message identifiers when get_messages_for_all_categories is checked on
\* its own
MaxFetchId == 3
\* longest text handed to predict_intent when it is checked on its own
MaxLen == 3
\* create_or_get_label calls issued by the sequential label driver
MaxCalls == 4
\* long texts have between TextCap - MaxOver and TextCap + MaxOver
\* characters between their leading and trailing whitespace
MaxOver == 2
\* most body parts in a payload tree
MaxNodes == 4
\* most atoms in the fragments of a message, taken together
MaxAtoms == 3
\* most atoms in the body of an html part
MaxHtmlLen == 4

(***************************************************************************)
(* Program constants.                                                      *)
(***************************************************************************)
\* aimodel.py:46  len(clean_text) > 1000
TextCap == 1000

\* gmail_api.py:154-161
category_labels ==
  << "INBOX", "CATEGORY_PERSONAL", "CATEGORY_PROMOTIONS",
     "CATEGORY_SOCIAL", "CATEGORY_UPDATES", "CATEGORY_FORUMS" >>

\* aimodel.py:13-26
EMAIL_INTENTS ==
  << "newsletter", "promotional", "personal", "work", "notification", "spam",
     "phishing", "important", "urgent", "social", "shopping", "marketing" >>

(***************************************************************************)
(* Text: a string is a sequence of characters.                             *)
(***************************************************************************)
Whitespace == {" ", "\n"}
Alphabet == {" ", "\n", "x"}

RECURSIVE LStrip(_)
LStrip(s) ==
  IF s = <<>> THEN <<>>
  ELSE IF Head(s) \in Whitespace THEN LStrip(Tail(s)) ELSE s

RECURSIVE RStrip(_)
RStrip(s) ==
  IF s = <<>> THEN <<>>
  ELSE IF s[Len(s)] \in Whitespace THEN RStrip(SubSeq(s, 1, Len(s) - 1)) ELSE s

\* str.strip()
Strip(s) == RStrip(LStrip(s))

\* every character of s is whitespace (so is the empty string)
AllWhitespace(s) == \A i \in 1..Len(s) : s[i] \in Whitespace

\* truthiness of a str: "not text" is true exactly for the empty string
Truthy(s) == s # <<>>

\* variant: the marker is left out
TruncateNoMarker(s) ==
  LET clean_text == Strip(s)
  IN IF Len(clean_text) > TextCap THEN SubSeq(clean_text, 1, TextCap)
     ELSE clean_text

\* clean_text[:1000] + "..." when len(clean_text) > 1000   (aimodel.py:45-47)
Truncate(s) ==
  LET clean_text == Strip(s)
  IN IF Len(clean_text) > TextCap
       THEN SubSeq(clean_text, 1, TextCap) \o << ".", ".", "." >>
       ELSE clean_text

\* f"AI:{intent.capitalize()}"   (views.py:53): str.capitalize() upper-cases
\* the first character and lower-cases the rest
AiLabelOf(w) ==
  CASE w = "newsletter"   -> "AI:Newsletter"
    [] w = "promotional"  -> "AI:Promotional"
    [] w = "personal"     -> "AI:Personal"
    [] w = "work"         -> "AI:Work"
    [] w = "notification" -> "AI:Notification"
    [] w = "spam"         -> "AI:Spam"
    [] w = "phishing"     -> "AI:Phishing"
    [] w = "important"    -> "AI:Important"
    [] w = "urgent"       -> "AI:Urgent"
    [] w = "social"       -> "AI:Social"
    [] w = "shopping"     -> "AI:Shopping"
    [] w = "marketing"    -> "AI:Marketing"
    [] w = "unknown"      -> "AI:Unknown"

(***************************************************************************)
(* Python exception matching.  Every kind raised here (HttpError, KeyError, *)
(* RuntimeError, plain Exception) is a subclass of Exception and of no     *)
(* other kind.                                                             *)
(***************************************************************************)
Catches(handler, e) == handler = "Exception" \/ e = handler

VARIABLES
  pc,                \* position of the running entry point
  response,          \* "none", "success" or "error500"
  env,               \* what the collaborators hold (idCap, sigCap, rankCap)
                     \* and which fetch observers are kept (watch)
  classifier,        \* aimodel.classifier: "loaded" or "None"
  rejects,           \* mail service rejects creating an existing label name
  store,             \* mail service label list: sequence of [name, id]
  calls,             \* create_or_get_label activations, one per caller
  cat, meta_list, pos, seen_ids, messages_full,
  idx, rule_result, text, intent, confidence, label_ai, labels, label_ids,
  pass,
  processed_details, processed_count,
  subject,           \* second argument of classify_email_priority
  payload,           \* message payload handed to the content functions
  content_parts,     \* what extract_content_parts returned
  \* observers (not program state)
  listedOnce, listedTwice, firstOcc, reached, getCalls, listedCats, gotOk,
  firstFailedCat, fetchedAfterFail, clfCalls, submitted, cur, last, hist, nCalls,
  adapter,           \* which adapter of aimodel.py was called last
  labelCalled        \* the webhook has called create_or_get_label

svcVars  == << env, classifier, rejects >>
fetchVars == << cat, meta_list, pos, seen_ids, messages_full >>
fetchObs == << listedOnce, listedTwice, firstOcc, reached, getCalls,
               listedCats, gotOk, firstFailedCat, fetchedAfterFail >>
msgVars  == << idx, rule_result, text, intent, confidence, label_ai, labels,
               label_ids, pass >>
outVars  == << processed_details, processed_count >>
aiObs    == << clfCalls, submitted >>
drvObs   == << hist, nCalls >>
adpVars  == << subject, adapter >>
contentVars == << payload, content_parts >>
vars == << pc, response, svcVars, store, calls, fetchVars, fetchObs, msgVars,
           outVars, aiObs, cur, last, drvObs, adpVars, contentVars,
                  labelCalled >>

Callers == {1, 2}
Ids == 1..(IF MaxId > MaxFetchId THEN MaxId ELSE MaxFetchId)

RECURSIVE SeqsUpTo(_, _)
SeqsUpTo(S, n) ==
  IF n = 0 THEN { <<>> }
  ELSE LET shorter == SeqsUpTo(S, n - 1)
       IN shorter \cup { Append(q, x) : q \in { r \in shorter : Len(r) = n - 1 }, x \in S }

\* what messages().list can return for one category: metas with an id, or
\* without one (0)
Listings(idCap) == SeqsUpTo(0..idCap, MaxListLen)

Range(q) == { q[i] : i \in 1..Len(q) }

\* ids of q not yet in done, in order of first occurrence
RECURSIVE NewIn(_, _)
NewIn(q, done) ==
  IF q = <<>> THEN <<>>
  ELSE IF Head(q) = 0 \/ Head(q) \in done THEN NewIn(Tail(q), done)
       ELSE << Head(q) >> \o NewIn(Tail(q), done \cup {Head(q)})

NoRule == [text |-> FALSE, link |-> FALSE, suspicious |-> FALSE,
           urgent_language |-> FALSE, money_related |-> FALSE]
IdleCall == [pc |-> "idle", name |-> "", result |-> 0, exc |-> "none",
             lists |-> 0, creates |-> 0, conflict |-> FALSE,
             transient |-> FALSE]
\* message.get('payload', {}) of a message without one (gmail_api.py:256)
NoData == [present |-> FALSE, valid |-> FALSE, text |-> <<>>]
NoPayload == [mimeType |-> "", data |-> NoData, parts |-> <<>>]
NoCur == [blank |-> FALSE, predict |-> "none", applies |-> <<>>,
          resolves |-> 0, raised |-> FALSE]

\* names the label driver and the racing callers ask for
DriverNames == {"Text Only", "AI:Unknown"}

InitCommon ==
  /\ response = "none"
  /\ store = <<>>
  /\ calls = [c \in Callers |-> IdleCall]
  /\ cat = 1 /\ meta_list = <<>> /\ pos = 1 /\ seen_ids = {}
  /\ idx = 1 /\ rule_result = NoRule /\ text = <<>> /\ intent = "None"
  /\ confidence = 0 /\ label_ai = "AI:Unknown" /\ labels = <<>>
  /\ label_ids = <<>> /\ pass = 1
  /\ processed_details = <<>> /\ processed_count = 0
  /\ listedOnce = {} /\ listedTwice = {} /\ firstOcc = <<>> /\ reached = <<>>
  /\ getCalls = [i \in Ids |-> 0] /\ listedCats = {} /\ gotOk = <<>>
  /\ firstFailedCat = 0 /\ fetchedAfterFail = FALSE
  /\ clfCalls = 0 /\ submitted = <<>> /\ cur = NoCur /\ last = NoCur
  /\ hist = [n \in DriverNames |-> {}] /\ nCalls = 0
  /\ subject = <<>> /\ adapter = "none"
  /\ payload = NoPayload /\ content_parts = <<>>
  /\ labelCalled = FALSE

\* a POST to gmail_webhook (views.py:23-28).  The messages of a batch set no
\* rule signal; SpecOne goes through every combination of signals for one
\* message.
Init ==
  /\ InitCommon
  /\ pc = "start"
  /\ env = [idCap |-> MaxId, sigCap |-> 0, rankCap |-> MaxRank,
           watch |-> "listed"]
  /\ classifier \in {"loaded", "None"}
  /\ rejects = TRUE
  /\ messages_full = <<>>

(***************************************************************************)
(* get_messages_for_all_categories   (gmail_api.py:141-182)                *)
(***************************************************************************)
\* views.py:27-28, 102-103
GetService ==
  /\ pc = "start"
  /\ \E ok \in BOOLEAN :
       IF ok THEN pc' = "list" /\ response' = response
       ELSE pc' = "done" /\ response' = "error500"
  /\ UNCHANGED << svcVars, store, calls, fetchVars, fetchObs, msgVars,
                  outVars, aiObs, cur, last, drvObs, adpVars, contentVars,
                  labelCalled >>

\* variant: the loop handler is written `except HttpError:`
CategoryHandlerHttpOnly(e) == Catches("HttpError", e)

\* `except Exception: continue` of the category loop (gmail_api.py:178-180)
CategoryHandlerCatches(e) == Catches("Exception", e)

\* variant: the membership test is left out
SkipMetaNoDedup(msg_id, seen) == msg_id = 0

\* `if not msg_id or msg_id in seen_ids: continue` (gmail_api.py:171-172)
SkipMeta(msg_id, seen) == msg_id = 0 \/ msg_id \in seen

\* the for loop moves to the next category, or returns (gmail_api.py:166, 182)
AdvanceCategory ==
  /\ meta_list' = <<>> /\ pos' = 1
  /\ IF cat < Len(category_labels)
       THEN cat' = cat + 1 /\ pc' = "list"
       ELSE cat' = cat /\ pc' = "fetched"

\* variant: the identifier is not recorded
MarkSeenNot(seen, msg_id) == seen

\* seen_ids.add(msg_id) (gmail_api.py:173)
MarkSeen(seen, msg_id) == seen \cup {msg_id}

\* messages_full.append(message) (gmail_api.py:177)
AddMessage(full, message) == Append(full, message)

\* an exception e inside the body of the category loop
CategoryError(e) ==
  /\ firstFailedCat' = IF firstFailedCat = 0 THEN cat ELSE firstFailedCat
  /\ fetchedAfterFail' = fetchedAfterFail
  /\ IF CategoryHandlerCatches(e)
       THEN AdvanceCategory /\ response' = response
       ELSE \* leaves get_messages_for_all_categories; views.py:102-103
            /\ pc' = "done" /\ response' = "error500"
            /\ UNCHANGED << cat, meta_list, pos >>

\* list_messages for the current category (gmail_api.py:117-139, 168)
ListMessages ==
  /\ pc = "list"
  /\ listedCats' = listedCats \cup {cat}
  /\ \/ \* messages().list raises HttpError, re-raised as Exception (138-139)
        /\ CategoryError("Exception")
        /\ UNCHANGED << listedOnce, listedTwice, firstOcc >>
     \/ \E l \in Listings(env.idCap) :
          /\ IF env.watch = "listed"
               THEN /\ listedOnce' = listedOnce \cup (Range(l) \ {0})
                    /\ listedTwice' = listedTwice \cup (listedOnce \cap Range(l))
                    /\ firstOcc' = firstOcc
               ELSE /\ firstOcc' = firstOcc \o NewIn(l, Range(firstOcc))
                    /\ UNCHANGED << listedOnce, listedTwice >>
          /\ response' = response
          /\ UNCHANGED << firstFailedCat, fetchedAfterFail >>
          /\ IF l = <<>> THEN AdvanceCategory
             ELSE meta_list' = l /\ pos' = 1 /\ pc' = "scan" /\ cat' = cat
  /\ UNCHANGED << svcVars, store, calls, seen_ids, messages_full, reached,
                  getCalls, gotOk, msgVars, outVars, aiObs, cur, last, drvObs, adpVars, contentVars,
                  labelCalled >>

\* the loop over meta_list moves on (gmail_api.py:169)
AdvanceMeta ==
  IF pos < Len(meta_list)
    THEN pos' = pos + 1 /\ UNCHANGED << pc, cat, meta_list >>
    ELSE AdvanceCategory

\* one iteration of `for meta in meta_list` (gmail_api.py:169-177)
FetchMessage ==
  /\ pc = "scan"
  /\ LET msg_id == meta_list[pos] IN
       IF SkipMeta(msg_id, seen_ids)
         THEN /\ AdvanceMeta
              /\ UNCHANGED << seen_ids, messages_full, reached, getCalls,
                              gotOk, response, firstFailedCat,
                              fetchedAfterFail >>
         ELSE /\ seen_ids' = MarkSeen(seen_ids, msg_id)
              /\ reached' = IF env.watch = "order" THEN Append(reached, msg_id)
                            ELSE reached
              /\ getCalls' = [getCalls EXCEPT ![msg_id] = @ + 1]
              /\ \/ \* messages().get returns the full message
                    /\ messages_full' = AddMessage(messages_full, msg_id)
                    /\ gotOk' = Append(gotOk, msg_id)
                    /\ AdvanceMeta
                    /\ response' = response
                    /\ firstFailedCat' = firstFailedCat
                    /\ fetchedAfterFail' = (fetchedAfterFail \/ firstFailedCat # 0)
                 \/ \* messages().get raises HttpError
                    /\ CategoryError("HttpError")
                    /\ UNCHANGED << messages_full, gotOk >>
  /\ UNCHANGED << svcVars, store, calls, listedOnce, listedTwice, firstOcc,
                  listedCats, msgVars, outVars, aiObs, cur, last, drvObs, adpVars, contentVars,
                  labelCalled >>

(***************************************************************************)
(* create_or_get_label   (gmail_api.py:184-225)                            *)
(* One activation per caller c; each mail-service call is one step.        *)
(***************************************************************************)
\* `for label in labels: if label.get('name') == label_name: return id`
\* (gmail_api.py:199-201, 219-221); 0 when the loop falls through
\* variant: the loop compares the label's id, not its name, with label_name
LookupById(listing, label_name) == 0

RECURSIVE LookupLabel(_, _)
LookupLabel(listing, label_name) ==
  IF listing = <<>> THEN 0
  ELSE IF Head(listing).name = label_name THEN Head(listing).id
       ELSE LookupLabel(Tail(listing), label_name)

\* `except HttpError as error: raise Exception(...)` (gmail_api.py:224-225)
CreateOrGetRaises(e) == IF Catches("HttpError", e) THEN "Exception" ELSE e

\* variant: the handler around create is written for another exception
CreateHandlerKeyOnly(e) == Catches("KeyError", e)

\* `except HttpError:` around labels().create (gmail_api.py:215)
CreateHandlerCatches(e) == Catches("HttpError", e)

\* variant: the call trusts an earlier listing and goes straight to create
StartCallNoListing(label_name) ==
  [IdleCall EXCEPT !.pc = "create", !.name = label_name]

\* entry of create_or_get_label (gmail_api.py:184-195)
StartCall(label_name) == [IdleCall EXCEPT !.pc = "list", !.name = label_name]

\* labels().list, then the lookup (gmail_api.py:196-201)
CglList(c) ==
  /\ calls[c].pc = "list"
  /\ \/ \* the listing is returned
        LET found == LookupLabel(store, calls[c].name) IN
          calls' = [calls EXCEPT ![c].lists = @ + 1,
                                 ![c].result = found,
                                 ![c].pc = IF found # 0 THEN "returned"
                                           ELSE "create"]
     \/ \* labels().list raises HttpError
        calls' = [calls EXCEPT ![c].lists = @ + 1,
                               ![c].transient = TRUE,
                               ![c].pc = "raised",
                               ![c].exc = CreateOrGetRaises("HttpError")]
  /\ UNCHANGED << pc, response, svcVars, store, fetchVars, fetchObs, msgVars,
                  outVars, aiObs, cur, last, drvObs, adpVars, contentVars,
                  labelCalled >>

\* labels().create (gmail_api.py:203-215)
CglCreate(c) ==
  /\ calls[c].pc = "create"
  /\ LET exists == LookupLabel(store, calls[c].name) # 0
         fail(conflict) ==
           IF CreateHandlerCatches("HttpError")
             THEN calls' = [calls EXCEPT ![c].creates = @ + 1,
                                         ![c].conflict = conflict,
                                         ![c].transient = @ \/ ~conflict,
                                         ![c].pc = "relist"]
             ELSE calls' = [calls EXCEPT ![c].creates = @ + 1,
                                         ![c].conflict = conflict,
                                         ![c].transient = @ \/ ~conflict,
                                         ![c].pc = "raised",
                                         ![c].exc = CreateOrGetRaises("HttpError")]
     IN IF exists /\ rejects
          THEN \* the mail service answers with a conflict
               fail(TRUE) /\ store' = store
          ELSE \/ LET id == Len(store) + 1 IN
                    /\ store' = Append(store, [name |-> calls[c].name, id |-> id])
                    /\ calls' = [calls EXCEPT ![c].creates = @ + 1,
                                             ![c].result = id,
                                             ![c].pc = "returned"]
               \/ \* a transient failure: nothing is created
                  fail(FALSE) /\ store' = store
  /\ UNCHANGED << pc, response, svcVars, fetchVars, fetchObs, msgVars,
                  outVars, aiObs, cur, last, drvObs, adpVars, contentVars,
                  labelCalled >>

\* variant: a name that is still absent is created again
AfterRelistRetry(found) == IF found # 0 THEN "returned" ELSE "create"

\* after the second listing: `return label['id']` inside the loop, or the
\* `raise` behind it (gmail_api.py:219-222)
AfterRelist(found) == IF found # 0 THEN "returned" ELSE "raised"

\* the handler of a failed create: re-list, return if found, else re-raise
\* (gmail_api.py:216-222)
CglRelist(c) ==
  /\ calls[c].pc = "relist"
  /\ \/ LET found == LookupLabel(store, calls[c].name) IN
          calls' = [calls EXCEPT ![c].lists = @ + 1,
                                 ![c].pc = AfterRelist(found),
                                 ![c].result = found,
                                 ![c].exc = IF found # 0 THEN "none"
                                            ELSE CreateOrGetRaises("HttpError")]
     \/ \* the second labels().list raises HttpError
        calls' = [calls EXCEPT ![c].lists = @ + 1,
                               ![c].transient = TRUE,
                               ![c].pc = "raised",
                               ![c].exc = CreateOrGetRaises("HttpError")]
  /\ UNCHANGED << pc, response, svcVars, store, fetchVars, fetchObs, msgVars,
                  outVars, aiObs, cur, last, drvObs, adpVars, contentVars,
                  labelCalled >>

(***************************************************************************)
(* predict_intent   (aimodel.py:28-62)                                     *)
(***************************************************************************)
Scores == {90}

\* what the classifier call can do: a ranked result, an exception, or a
\* result without the expected keys
Replies(rankCap) ==
  { [kind |-> "ok", label |-> EMAIL_INTENTS[i], score |-> sc] :
      i \in 1..rankCap, sc \in Scores }
  \cup { [kind |-> k, label |-> "", score |-> 0] : k \in {"raise", "malformed"} }

\* the exception a failed classifier call ends in: the call raises, or
\* result['labels'][0] does not exist
ReplyException(reply) ==
  IF reply.kind = "raise" THEN "RuntimeError" ELSE "KeyError"

\* variant: only a malformed result is handled
PredictHandlerKeyOnly(e) == Catches("KeyError", e)

\* `except Exception as e:` (aimodel.py:60)
PredictHandlerCatches(e) == Catches("Exception", e)

Fallback == [intent |-> "unknown", confidence |-> 0, invoked |-> FALSE,
             sent |-> <<>>, raised |-> "none"]

\* variant: the test is `if not text`
BlankInputNoStrip(t) == ~Truthy(t)

\* `if not text or not text.strip()` (aimodel.py:41)
BlankInput(t) == ~Truthy(t) \/ ~Truthy(Strip(t))

\* `if not classifier` (aimodel.py:38)
Unavailable(clf) == clf = "None"

predict_intent(clf, t, reply) ==
  IF Unavailable(clf) THEN Fallback
  ELSE IF BlankInput(t) THEN Fallback
  ELSE LET clean_text == Truncate(t) IN
         IF reply.kind = "ok"
           THEN [intent |-> reply.label, confidence |-> reply.score,
                 invoked |-> TRUE, sent |-> clean_text, raised |-> "none"]
           ELSE IF PredictHandlerCatches(ReplyException(reply))
             THEN \* aimodel.py:60-62
                  [intent |-> "unknown", confidence |-> 0, invoked |-> TRUE,
                   sent |-> clean_text, raised |-> "none"]
             ELSE [intent |-> "unknown", confidence |-> 0, invoked |-> TRUE,
                   sent |-> clean_text, raised |-> ReplyException(reply)]

(***************************************************************************)
(* classify_email_sentiment, classify_email_priority (aimodel.py:64-136)   *)
(* The record they return has the shape of predict_intent's: the field     *)
(* intent holds the returned sentiment or priority.                        *)
(***************************************************************************)
\* candidate_labels (aimodel.py:87, 125)
SENTIMENTS == << "positive", "negative", "neutral" >>
PRIORITIES == << "high", "normal", "low" >>

\* what the classifier call can do when given the candidates cands
AdapterReplies(cands) ==
  { [kind |-> "ok", label |-> cands[i], score |-> sc] :
      i \in 1..Len(cands), sc \in Scores }
  \cup { [kind |-> k, label |-> "", score |-> 0] : k \in {"raise", "malformed"} }

\* what an adapter returns without a usable result (aimodel.py:75, 78, 98,
\* 112, 117, 136)
FallbackOf(label) == [intent |-> label, confidence |-> 0, invoked |-> FALSE,
                      sent |-> <<>>, raised |-> "none"]

\* the call and what follows it (aimodel.py:85-98, 123-136)
Invoke(clean_text, reply, fallback) ==
  IF reply.kind = "ok"
    THEN [intent |-> reply.label, confidence |-> reply.score,
          invoked |-> TRUE, sent |-> clean_text, raised |-> "none"]
    ELSE IF Catches("Exception", ReplyException(reply))
      THEN [FallbackOf(fallback) EXCEPT !.invoked = TRUE, !.sent = clean_text]
      ELSE [FallbackOf(fallback) EXCEPT !.invoked = TRUE, !.sent = clean_text,
                                        !.raised = ReplyException(reply)]

\* aimodel.py:64-98
classify_email_sentiment(clf, t, reply) ==
  IF Unavailable(clf) THEN FallbackOf("neutral")
  ELSE IF ~Truthy(t) \/ ~Truthy(Strip(t)) THEN FallbackOf("neutral")
  ELSE Invoke(Truncate(t), reply, "neutral")

\* the characters of "Subject: " and of the separator (aimodel.py:114)
SubjectPrefix == << "S", "u", "b", "j", "e", "c", "t", ":", " " >>
SubjectSeparator == << "\n", "\n" >>

\* f"Subject: {subject}\n\n{text}".strip() (aimodel.py:114)
CombinedText(t, subj) == Strip(SubjectPrefix \o subj \o SubjectSeparator \o t)

\* aimodel.py:100-136
classify_email_priority(clf, t, subj, reply) ==
  IF Unavailable(clf) THEN FallbackOf("normal")
  ELSE LET combined_text == CombinedText(t, subj) IN
         IF ~Truthy(combined_text) THEN FallbackOf("normal")
         ELSE Invoke(IF Len(combined_text) > TextCap
                       THEN SubSeq(combined_text, 1, TextCap) \o << ".", ".", "." >>
                       ELSE combined_text,
                     reply, "normal")

(***************************************************************************)
(* Message content (classifiers.py, gmail_api.get_message_content).        *)
(* A decoded body is a sequence of atoms: a character, or a word that the  *)
(* patterns look for.  A body part is [mimeType, data, parts]; data tells  *)
(* whether body.data is present (neither missing nor empty), whether       *)
(* decoding it succeeds, and what text comes out.                          *)
(***************************************************************************)
\* 'text/plain' in mime_type, 'text/html' in mime_type, 'multipart' in
\* mime_type (classifiers.py:65, 76; gmail_api.py:264, 274, 287)
IsPlain(mime_type) == mime_type \in {"text/plain"}
IsHtml(mime_type) == mime_type \in {"text/html"}
IsMultipart(mime_type) == mime_type \in {"multipart/mixed"}

\* variant: only text/plain parts are decoded
IsContentPlainOnly(mime_type) == IsPlain(mime_type)

\* `if 'text/plain' in mime_type or 'text/html' in mime_type`
\* (classifiers.py:65)
IsContent(mime_type) == IsPlain(mime_type) \/ IsHtml(mime_type)

\* `if data:` followed by base64.urlsafe_b64decode(data).decode(...) inside
\* try/except Exception: the decoded text in a one-element list, or nothing
\* (classifiers.py:66-73; gmail_api.py:265-273)
Decoded(data) ==
  IF ~data.present THEN <<>>
  ELSE IF data.valid THEN << data.text >> ELSE <<>>

RECURSIVE extract_from_part(_)
RECURSIVE extract_from_parts(_)
\* classifiers.py:61-79
extract_from_part(part) ==
  IF IsContent(part.mimeType) THEN Decoded(part.data)
  ELSE IF IsMultipart(part.mimeType) THEN extract_from_parts(part.parts)
  ELSE <<>>

\* `for sub_part in parts: extract_from_part(sub_part)` (classifiers.py:78-79)
extract_from_parts(parts) ==
  IF parts = <<>> THEN <<>>
  ELSE extract_from_part(Head(parts)) \o extract_from_parts(Tail(parts))

\* classifiers.py:49-84
extract_content_parts(p) == extract_from_part(p)

\* re.search of word1.*word2...: the words occur in this order, and no
\* newline lies between one and the next ('.' does not match a newline).
\* Follows: the words of rest occur behind position i of content
RECURSIVE Follows(_, _, _)
Follows(rest, content, i) ==
  \/ rest = <<>>
  \/ \E j \in (i + 1)..Len(content) :
        /\ content[j] = Head(rest)
        /\ \A k \in (i + 1)..(j - 1) : content[k] # "\n"
        /\ Follows(Tail(rest), content, j)

Matches(pattern, content) ==
  \E i \in 1..Len(content) :
     content[i] = Head(pattern) /\ Follows(Tail(pattern), content, i)

\* the patterns of classifiers.py whose words are atoms of the model
\* (classifiers.py:97-101, 121-142, 162-175, 195-212)
url_patterns == { << "http://a" >> }
suspicious_patterns == { << "verify", "account" >> }
urgent_patterns == { << "urgent" >> }
money_patterns == { << "invoice" >> }

\* classifiers.py:86-107, 110-149, 152-182, 185-219
has_links(content) == \E pt \in url_patterns : Matches(pt, content)
is_suspicious_content(content) ==
  \E pt \in suspicious_patterns : Matches(pt, content)
has_urgent_language(content) == \E pt \in urgent_patterns : Matches(pt, content)
has_money_related_content(content) ==
  \E pt \in money_patterns : Matches(pt, content)

\* variant: each fragment overwrites the flag
SetFlagLast(old, hit) == hit

\* `if <check>(content): result[flag] = True` (classifiers.py:28-45)
SetFlag(old, hit) == IF hit THEN TRUE ELSE old

\* the loop over content_parts (classifiers.py:26-45)
RECURSIVE ClassifyParts(_, _)
ClassifyParts(parts, result) ==
  IF parts = <<>> THEN result
  ELSE LET content == Head(parts) IN
         ClassifyParts(Tail(parts),
           [text |-> SetFlag(result.text, Truthy(Strip(content))),
            link |-> SetFlag(result.link, has_links(content)),
            suspicious |->
              SetFlag(result.suspicious, is_suspicious_content(content)),
            urgent_language |->
              SetFlag(result.urgent_language, has_urgent_language(content)),
            money_related |->
              SetFlag(result.money_related,
                      has_money_related_content(content))])

\* re.sub(r'<[^>]+>', '', html): a tag is "<", one or more atoms other than
\* ">", and ">" (gmail_api.py:282)
RECURSIVE StripTags(_)
StripTags(html) ==
  IF html = <<>> THEN <<>>
  ELSE LET closers == { j \in 2..Len(html) : html[j] = ">" } IN
         IF Head(html) = "<" /\ closers # {}
              /\ (CHOOSE j \in closers : \A k \in closers : j <= k) > 2
           THEN StripTags(SubSeq(html,
                   (CHOOSE j \in closers : \A k \in closers : j <= k) + 1,
                   Len(html)))
           ELSE << Head(html) >> \o StripTags(Tail(html))

\* re.sub(r'\s+', ' ', text) (gmail_api.py:283)
RECURSIVE CollapseSpace(_)
CollapseSpace(t) ==
  IF t = <<>> THEN <<>>
  ELSE IF Head(t) \in Whitespace
    THEN << " " >> \o CollapseSpace(LStrip(t))
    ELSE << Head(t) >> \o CollapseSpace(Tail(t))

\* what one part adds to content (gmail_api.py:259-290)
RECURSIVE content_from_part(_)
RECURSIVE content_from_parts(_)
content_from_part(part) ==
  IF IsPlain(part.mimeType)
    THEN IF Decoded(part.data) = <<>> THEN <<>>
         ELSE Decoded(part.data)[1] \o << " " >>
  ELSE IF IsHtml(part.mimeType)
    THEN IF Decoded(part.data) = <<>> THEN <<>>
         ELSE Strip(CollapseSpace(StripTags(Decoded(part.data)[1])))
              \o << " " >>
  ELSE IF IsMultipart(part.mimeType) THEN content_from_parts(part.parts)
  ELSE <<>>

content_from_parts(parts) ==
  IF parts = <<>> THEN <<>>
  ELSE content_from_part(Head(parts)) \o content_from_parts(Tail(parts))

\* gmail_api.py:246-293
get_message_content(p) == Strip(content_from_part(p))

(***************************************************************************)
(* gmail_webhook   (gmailhook/views.py:23-103)                             *)
(***************************************************************************)
Signals == {"link", "suspicious", "urgent_language", "money_related"}

\* results classify_email_content can give with at most cap signals set; a
\* signal is set by a fragment, and that fragment also sets 'text'
RuleResults(cap) ==
  { r \in [ {"text"} \cup Signals -> BOOLEAN ] :
      /\ Cardinality({ g \in Signals : r[g] }) <= cap
      /\ (\E g \in Signals : r[g]) => r["text"] }

\* get_message_content returns content.strip() (gmail_api.py:293)
MessageTexts == { Strip(t) : t \in SeqsUpTo(Alphabet, 1) }

\* a fetched message, as far as the webhook looks at it: a flattened text
\* that is not blank comes from a fragment that sets 'text'
Contents(cap) ==
  { m \in [rule : RuleResults(cap), text : MessageTexts] :
      Truthy(m.text) => m.rule["text"] }

\* variant: the phishing label is decided by urgent_language
BuildLabelsByUrgency(r) ==
  << IF r["link"] THEN "Contains Link" ELSE "Text Only" >>
  \o (IF r["suspicious"]
        THEN << IF r["urgent_language"] THEN "Potential Phishing"
                ELSE "Suspicious Content" >>
        ELSE <<>>)
  \o (IF r["urgent_language"] THEN << "Urgent Language" >> ELSE <<>>)
  \o (IF r["money_related"] THEN << "Money Related" >> ELSE <<>>)

\* views.py:59-66
BuildLabels(r) ==
  << IF r["link"] THEN "Contains Link" ELSE "Text Only" >>
  \o (IF r["suspicious"]
        THEN << IF r["money_related"] THEN "Potential Phishing"
                ELSE "Suspicious Content" >>
        ELSE <<>>)
  \o (IF r["urgent_language"] THEN << "Urgent Language" >> ELSE <<>>)
  \o (IF r["money_related"] THEN << "Money Related" >> ELSE <<>>)

\* `except HttpError as error: raise Exception(...)` (gmail_api.py:243-244)
ApplyLabelRaises(e) == IF Catches("HttpError", e) THEN "Exception" ELSE e

\* `except HttpError:` around the first apply_label (views.py:77)
RetryHandlerCatches(e) == Catches("HttpError", e)

\* variant: the loop handler is written `except HttpError as e:`
MessageHandlerHttpOnly(e) == Catches("HttpError", e)

\* `except Exception as e:` of the message loop (views.py:97)
MessageHandlerCatches(e) == Catches("Exception", e)

\* views.py:81-94
Detail(msg_id, r, ai, int, conf) ==
  [message_id |-> msg_id, applied_labels |-> BuildLabels(r) \o << ai >>,
   ai_label |-> ai, intent |-> int, confidence |-> conf,
   rule_classification |-> r, error |-> ""]

\* variant: the entry does not carry the error
ErrorDetailSilent(msg_id, err) ==
  [message_id |-> msg_id, applied_labels |-> <<>>, ai_label |-> "",
   intent |-> "None", confidence |-> 0, rule_classification |-> NoRule,
   error |-> ""]

\* views.py:98
ErrorDetail(msg_id, err) ==
  [message_id |-> msg_id, applied_labels |-> <<>>, ai_label |-> "",
   intent |-> "None", confidence |-> 0, rule_classification |-> NoRule,
   error |-> err]

\* the end of one iteration of `for message in messages` (views.py:38, 100)
NextMessage ==
  /\ idx' = idx + 1
  /\ rule_result' = NoRule /\ text' = <<>> /\ intent' = "None"
  /\ confidence' = 0 /\ label_ai' = "AI:Unknown" /\ labels' = <<>>
  /\ label_ids' = <<>> /\ pass' = 1
  /\ cur' = NoCur
  /\ IF idx < Len(messages_full)
       THEN pc' = "loop" /\ response' = response
       ELSE pc' = "done" /\ response' = "success"

\* views.py:95-96
Succeed(seen) ==
  /\ processed_details' =
       Append(processed_details,
              Detail(messages_full[idx], rule_result, label_ai, intent, confidence))
  /\ processed_count' = processed_count + 1
  /\ last' = seen
  /\ NextMessage

\* an exception e raised inside the try of the message loop (views.py:97-98)
Fail(e, err, seen) ==
  IF MessageHandlerCatches(e)
    THEN /\ processed_details' =
              Append(processed_details, ErrorDetail(messages_full[idx], err))
         /\ processed_count' = processed_count
         /\ last' = [seen EXCEPT !.raised = TRUE]
         /\ NextMessage
    ELSE \* views.py:102-103
         /\ pc' = "done" /\ response' = "error500"
         /\ last' = [seen EXCEPT !.raised = TRUE]
         /\ UNCHANGED << msgVars, outVars, cur >>

\* views.py:31-36; the locals of get_messages_for_all_categories are gone
StartBatch ==
  /\ pc = "fetched"
  /\ IF messages_full = <<>>
       THEN pc' = "done" /\ response' = "success"
       ELSE pc' = "loop" /\ response' = response
  /\ cat' = 1 /\ meta_list' = <<>> /\ pos' = 1 /\ seen_ids' = {}
  /\ firstOcc' = <<>> /\ reached' = <<>> /\ getCalls' = [i \in Ids |-> 0]
  /\ listedCats' = {} /\ gotOk' = <<>> /\ listedOnce' = {}
  /\ firstFailedCat' = 0 /\ fetchedAfterFail' = FALSE
  /\ UNCHANGED << svcVars, store, calls, messages_full, listedTwice,
                  msgVars, outVars, aiObs, cur, last, drvObs, adpVars, contentVars,
                  labelCalled >>

\* views.py:40-47 and, for a blank text, 50-66
Classify ==
  /\ pc = "loop"
  /\ \/ \* the payload makes classification or text extraction raise
        /\ Fail("Exception", "payload error", cur)
        /\ UNCHANGED << calls >>
     \/ \E m \in Contents(env.sigCap) :
          /\ rule_result' = m.rule
          /\ text' = m.text
          /\ IF Truthy(Strip(m.text))
               THEN /\ pc' = "predict"
                    /\ cur' = [cur EXCEPT !.blank = AllWhitespace(m.text)]
                    /\ UNCHANGED << intent, confidence, label_ai, labels >>
               ELSE /\ pc' = "resolve"
                    /\ intent' = "None" /\ confidence' = 0
                    /\ label_ai' = "AI:Unknown"
                    /\ labels' = BuildLabels(m.rule)
                    /\ cur' = [cur EXCEPT !.predict = "skipped", !.resolves = 1,
                                          !.blank = AllWhitespace(m.text)]
          /\ UNCHANGED << idx, label_ids, pass, response, outVars, last, calls >>
  /\ UNCHANGED << svcVars, store, fetchVars, fetchObs, aiObs, drvObs, adpVars, contentVars,
                  labelCalled >>

\* views.py:52-53 and 59-66
Predict ==
  /\ pc = "predict"
  /\ \E reply \in Replies(env.rankCap) :
       LET res == predict_intent(classifier, text, reply)
           seen == [cur EXCEPT !.predict = IF ~res.invoked THEN "unavailable"
                                           ELSE IF reply.kind = "ok" THEN "ok"
                                           ELSE "failed"]
       IN /\ clfCalls' = clfCalls + (IF res.invoked THEN 1 ELSE 0)
          /\ submitted' = res.sent
          /\ IF res.raised = "none"
               THEN /\ intent' = res.intent
                    /\ confidence' = res.confidence
                    /\ label_ai' = AiLabelOf(res.intent)
                    /\ labels' = BuildLabels(rule_result)
                    /\ cur' = [seen EXCEPT !.resolves = 1]
                    /\ pc' = "resolve"
                    /\ UNCHANGED << response, idx, rule_result, text,
                                    label_ids, pass, outVars, last >>
               ELSE Fail(res.raised, "Error in intent prediction", seen)
  /\ UNCHANGED << svcVars, store, calls, fetchVars, fetchObs, drvObs, adpVars, contentVars,
                  labelCalled >>

\* resolve_label_ids: the next create_or_get_label call (views.py:69-72)
ResolveCall ==
  /\ pc = "resolve"
  /\ calls[1].pc = "idle"
  /\ LET names == labels \o << label_ai >> IN
       calls' = [calls EXCEPT ![1] = StartCall(names[Len(label_ids) + 1])]
  /\ labelCalled' = TRUE
  /\ UNCHANGED << pc, response, svcVars, store, fetchVars, fetchObs, msgVars,
                  outVars, aiObs, cur, last, drvObs, adpVars, contentVars >>

\* the call returns an id, or raises into the message loop (views.py:70-74)
ResolveReturn ==
  /\ pc = "resolve"
  /\ calls[1].pc \in {"returned", "raised"}
  /\ calls' = [calls EXCEPT ![1] = IdleCall]
  /\ IF calls[1].pc = "returned"
       THEN /\ label_ids' = Append(label_ids, calls[1].result)
            /\ pc' = IF Len(label_ids) = Len(labels) THEN "apply" ELSE "resolve"
            /\ UNCHANGED << response, idx, rule_result, text, intent, confidence,
                            label_ai, labels, pass, outVars, cur, last >>
       ELSE Fail(calls[1].exc, "Error creating/getting label", cur)
  /\ UNCHANGED << svcVars, store, fetchVars, fetchObs, aiObs, drvObs, adpVars, contentVars,
                  labelCalled >>

\* apply_label and what the webhook does with its outcome (views.py:75-98,
\* gmail_api.py:227-244)
ApplyLabel ==
  /\ pc = "apply"
  /\ \E outcome \in {"ok", "HttpError"} :
       LET e == IF outcome = "ok" THEN "none" ELSE ApplyLabelRaises(outcome)
           seen == [cur EXCEPT !.applies = Append(@, outcome)]
       IN IF e = "none" THEN Succeed(seen)
          ELSE IF pass = 1 /\ RetryHandlerCatches(e)
            THEN \* views.py:78: resolve again
                 /\ pass' = 2 /\ label_ids' = <<>> /\ pc' = "resolve"
                 /\ cur' = [seen EXCEPT !.resolves = 2]
                 /\ UNCHANGED << response, idx, rule_result, text, intent,
                                 confidence, label_ai, labels, outVars, last >>
            ELSE Fail(e, "Error applying labels", seen)
  /\ UNCHANGED << svcVars, store, calls, fetchVars, fetchObs, aiObs, drvObs, adpVars, contentVars,
                  labelCalled >>

NextFetch == GetService \/ ListMessages \/ FetchMessage

\* get_messages_for_all_categories on its own, up to its return
InitFetch ==
  /\ InitCommon
  /\ pc = "start"
  /\ env = [idCap |-> MaxFetchId, sigCap |-> 0, rankCap |-> MaxRank,
           watch |-> "order"]
  /\ classifier = "loaded"
  /\ rejects = TRUE
  /\ messages_full = <<>>

SpecFetch == InitFetch /\ [][NextFetch]_vars

NextMessageSteps ==
  \/ Classify \/ Predict \/ ResolveCall \/ ResolveReturn \/ ApplyLabel
  \/ CglList(1) \/ CglCreate(1) \/ CglRelist(1)

Next == NextFetch \/ StartBatch \/ NextMessageSteps
Spec == Init /\ [][Next]_vars

(***************************************************************************)
(* One fetched message with any content, any classifier answer.            *)
(***************************************************************************)
InitOne ==
  /\ InitCommon
  /\ pc = "loop"
  /\ env = [idCap |-> MaxId, sigCap |-> Cardinality(Signals),
           rankCap |-> Len(EMAIL_INTENTS), watch |-> "listed"]
  /\ classifier \in {"loaded", "None"}
  /\ rejects = TRUE
  /\ messages_full = << 1 >>

SpecOne == InitOne /\ [][NextMessageSteps]_vars

(***************************************************************************)
(* predict_intent on its own, on any text of up to MaxLen characters.      *)
(***************************************************************************)
InitIntent ==
  /\ InitCommon
  /\ pc = "intent"
  /\ env = [idCap |-> MaxId, sigCap |-> Cardinality(Signals),
           rankCap |-> Len(EMAIL_INTENTS), watch |-> "listed"]
  /\ classifier \in {"loaded", "None"}
  /\ rejects = TRUE
  /\ messages_full = <<>>

\* the caller picks the argument
ChooseText ==
  /\ pc = "intent"
  /\ \E t \in SeqsUpTo(Alphabet, MaxLen) : text' = t
  /\ pc' = "intent_call"
  /\ UNCHANGED << response, svcVars, store, calls, fetchVars, fetchObs, idx,
                  rule_result, intent, confidence, label_ai, labels,
                  label_ids, pass, outVars, aiObs, cur, last, drvObs, adpVars, contentVars,
                  labelCalled >>

\* aimodel.py:28-62
PredictIntentCall ==
  /\ pc = "intent_call"
  /\ \E reply \in Replies(env.rankCap) :
       LET res == predict_intent(classifier, text, reply) IN
         /\ intent' = res.intent
         /\ confidence' = res.confidence
         /\ clfCalls' = clfCalls + (IF res.invoked THEN 1 ELSE 0)
         /\ submitted' = res.sent
         /\ pc' = IF res.raised = "none" THEN "intent_returned"
                  ELSE "intent_raised"
  /\ UNCHANGED << response, svcVars, store, calls, fetchVars, fetchObs, idx,
                  rule_result, text, label_ai, labels, label_ids, pass,
                  outVars, cur, last, drvObs, adpVars, contentVars,
                  labelCalled >>

NextIntent == ChooseText \/ PredictIntentCall
SpecIntent == InitIntent /\ [][NextIntent]_vars

(***************************************************************************)
(* predict_intent on texts around the cap of 1000 characters.              *)
(***************************************************************************)
\* n characters "x", with a blank at position m when m is in 1..n
Fill(n, m) == [i \in 1..n |-> IF i = m THEN " " ELSE "x"]

Pads == SeqsUpTo(Whitespace, 1)

\* texts whose body is a little shorter or longer than the cap, with
\* whitespace before and after it and a blank at the start, at the cap,
\* just behind the cap or at the end of the body
LongTexts(over) ==
  { lead \o Fill(n, m) \o trail :
      lead \in Pads, trail \in Pads,
      n \in (TextCap - over)..(TextCap + over),
      m \in {0, 1, TextCap, TextCap + 1, TextCap + over} }

\* the caller picks the argument
ChooseLongText ==
  /\ pc = "intent"
  /\ \E t \in LongTexts(MaxOver) \cup SeqsUpTo(Alphabet, 1) : text' = t
  /\ pc' = "intent_call"
  /\ UNCHANGED << response, svcVars, store, calls, fetchVars, fetchObs, idx,
                  rule_result, intent, confidence, label_ai, labels,
                  label_ids, pass, outVars, aiObs, cur, last, drvObs,
                  adpVars, contentVars, labelCalled >>

NextLong == ChooseLongText \/ PredictIntentCall
SpecLong == InitIntent /\ [][NextLong]_vars

(***************************************************************************)
(* The sentiment and the priority adapter on their own.                    *)
(***************************************************************************)
\* the caller picks the arguments
ChooseArgs ==
  /\ pc = "intent"
  /\ \E t \in LongTexts(MaxOver) \cup SeqsUpTo(Alphabet, MaxLen) : text' = t
  /\ \E subj \in SeqsUpTo(Alphabet, 1) : subject' = subj
  /\ pc' = "adapter_call"
  /\ UNCHANGED << response, svcVars, store, calls, fetchVars, fetchObs, idx,
                  rule_result, intent, confidence, label_ai, labels,
                  label_ids, pass, outVars, aiObs, cur, last, drvObs,
                  adapter, contentVars, labelCalled >>

\* the adapter returns res after the classifier answered with reply
AdapterReturn(name, res, reply) ==
  /\ adapter' = name
  /\ intent' = res.intent
  /\ confidence' = res.confidence
  /\ clfCalls' = clfCalls + (IF res.invoked THEN 1 ELSE 0)
  /\ submitted' = res.sent
  /\ cur' = [cur EXCEPT !.predict = IF ~res.invoked THEN "skipped"
                                    ELSE IF reply.kind = "ok" THEN "ok"
                                    ELSE "failed"]
  /\ pc' = IF res.raised = "none" THEN "adapter_returned"
           ELSE "adapter_raised"
  /\ UNCHANGED << response, svcVars, store, calls, fetchVars, fetchObs, idx,
                  rule_result, text, label_ai, labels, label_ids, pass,
                  outVars, last, drvObs, subject, contentVars, labelCalled >>

\* aimodel.py:64-98
SentimentCall ==
  /\ pc = "adapter_call"
  /\ \E reply \in AdapterReplies(SENTIMENTS) :
       AdapterReturn("sentiment",
                     classify_email_sentiment(classifier, text, reply), reply)

\* aimodel.py:100-136
PriorityCall ==
  /\ pc = "adapter_call"
  /\ \E reply \in AdapterReplies(PRIORITIES) :
       AdapterReturn("priority",
                     classify_email_priority(classifier, text, subject, reply),
                     reply)

NextAdapters == ChooseArgs \/ SentimentCall \/ PriorityCall
SpecAdapters == InitIntent /\ [][NextAdapters]_vars

(***************************************************************************)
(* The content functions on their own, in the order the webhook calls      *)
(* them (views.py:41, 47).                                                 *)
(***************************************************************************)
\* body.data that decodes to t, and body.data that makes the decoder raise
Encoded(t) == [present |-> TRUE, valid |-> TRUE, text |-> t]
Undecodable == [present |-> TRUE, valid |-> FALSE, text |-> <<>>]

Leaf(mime_type, data) == [mimeType |-> mime_type, data |-> data, parts |-> <<>>]
Multipart(parts) == [mimeType |-> "multipart/mixed", data |-> NoData,
                     parts |-> parts]

\* leaves of a payload tree: text parts without data, with data that does
\* not decode, and with data that decodes (to nothing, when it holds no
\* base64 character at all), and a part of another type whose data decodes
TreeLeaves ==
  { Leaf("text/plain", d) : d \in {NoData, Encoded(<<>>), Encoded(<< "x" >>),
                                    Encoded(<< "urgent" >>)} }
  \cup { Leaf("text/html", d) : d \in {Undecodable, Encoded(<< "x" >>),
                                       Encoded(<< "urgent" >>)} }
  \cup { Leaf("image/png", Encoded(<< "x" >>)) }

\* valid payload trees of exactly n parts, and sequences of trees of m parts
\* together: only a multipart part has children
RECURSIVE TreesOfSize(_)
RECURSIVE ForestsOfSize(_)
TreesOfSize(n) ==
  IF n = 0 THEN {}
  ELSE (IF n = 1 THEN TreeLeaves ELSE {})
       \cup { Multipart(f) : f \in ForestsOfSize(n - 1) }

ForestsOfSize(m) ==
  IF m = 0 THEN { <<>> }
  ELSE UNION { { << t >> \o f : t \in TreesOfSize(k),
                                f \in ForestsOfSize(m - k) } : k \in 1..m }

\* valid payload trees of at most most parts
Trees(most) == UNION { TreesOfSize(n) : n \in 1..most }

\* atoms of the fragments the signal checks are run on
RuleAlphabet == {"\n", "http://a", "urgent", "verify", "account", "invoice"}

\* lists of non-empty fragments with exactly n atoms together
RECURSIVE FragmentsOfSize(_)
FragmentsOfSize(n) ==
  IF n = 0 THEN { <<>> }
  ELSE UNION { { << c >> \o f : c \in [1..k -> RuleAlphabet],
                                f \in FragmentsOfSize(n - k) } : k \in 1..n }

\* lists of non-empty fragments with at most most atoms together
FragmentLists(most) == UNION { FragmentsOfSize(n) : n \in 0..most }

\* atoms of an html body
HtmlAlphabet == {"<", ">", " ", "x", "http://a"}

InitContent ==
  /\ InitCommon
  /\ pc = "content"
  /\ env = [idCap |-> MaxId, sigCap |-> 0, rankCap |-> MaxRank,
           watch |-> "listed"]
  /\ classifier = "loaded"
  /\ rejects = TRUE
  /\ messages_full = <<>>

\* the message's payload becomes p
TakePayload(p) ==
  /\ payload' = p
  /\ pc' = "payload"
  /\ UNCHANGED << response, svcVars, store, calls, fetchVars, fetchObs,
                  msgVars, outVars, aiObs, cur, last, drvObs, adpVars,
                  content_parts, labelCalled >>

\* any valid payload tree
ChooseTree == pc = "content" /\ \E p \in Trees(MaxNodes) : TakePayload(p)

\* a multipart message whose parts are plain-text fragments
ChooseFragments ==
  /\ pc = "content"
  /\ \E f \in FragmentLists(MaxAtoms) :
     TakePayload(Multipart([i \in 1..Len(f) |->
                              Leaf("text/plain", Encoded(f[i]))]))

\* a message that is one html part, or one plain-text part
ChooseHtml ==
  /\ pc = "content"
  /\ \E m \in {"text/html", "text/plain"},
        b \in SeqsUpTo(HtmlAlphabet, MaxHtmlLen) :
     TakePayload(Leaf(m, Encoded(b)))

\* classify_email_content(payload) (classifiers.py:5-47; views.py:41)
ClassifyContent ==
  /\ pc = "payload"
  /\ content_parts' = extract_content_parts(payload)
  /\ rule_result' = ClassifyParts(extract_content_parts(payload), NoRule)
  /\ pc' = "classified"
  /\ UNCHANGED << response, svcVars, store, calls, fetchVars, fetchObs, idx,
                  text, intent, confidence, label_ai, labels, label_ids, pass,
                  outVars, aiObs, cur, last, drvObs, adpVars, payload,
                  labelCalled >>

\* get_message_content(message) (gmail_api.py:246-293; views.py:47)
GetMessageContent ==
  /\ pc = "classified"
  /\ text' = get_message_content(payload)
  /\ pc' = "flattened"
  /\ UNCHANGED << response, svcVars, store, calls, fetchVars, fetchObs, idx,
                  rule_result, intent, confidence, label_ai, labels,
                  label_ids, pass, outVars, aiObs, cur, last, drvObs,
                  adpVars, contentVars, labelCalled >>

NextTree == ChooseTree \/ ClassifyContent \/ GetMessageContent
SpecTree == InitContent /\ [][NextTree]_vars

NextRules == ChooseFragments \/ ClassifyContent \/ GetMessageContent
SpecRules == InitContent /\ [][NextRules]_vars

NextHtml == ChooseHtml \/ ClassifyContent \/ GetMessageContent
SpecHtml == InitContent /\ [][NextHtml]_vars

(***************************************************************************)
(* create_or_get_label called again and again by one caller.               *)
(***************************************************************************)
InitLabels ==
  /\ InitCommon
  /\ pc = "driver"
  /\ env = [idCap |-> MaxId, sigCap |-> 0, rankCap |-> MaxRank,
           watch |-> "listed"]
  /\ classifier = "loaded"
  /\ rejects \in BOOLEAN
  /\ messages_full = <<>>

DriverCall ==
  /\ pc = "driver"
  /\ calls[1].pc = "idle"
  /\ nCalls < MaxCalls
  /\ \E n \in DriverNames : calls' = [calls EXCEPT ![1] = StartCall(n)]
  /\ nCalls' = nCalls + 1
  /\ UNCHANGED << pc, response, svcVars, store, fetchVars, fetchObs, msgVars,
                  outVars, aiObs, cur, last, hist, adpVars, contentVars,
                  labelCalled >>

DriverReturn ==
  /\ pc = "driver"
  /\ calls[1].pc \in {"returned", "raised"}
  /\ hist' = IF calls[1].pc = "returned"
               THEN [hist EXCEPT ![calls[1].name] = @ \cup {calls[1].result}]
               ELSE hist
  /\ calls' = [calls EXCEPT ![1] = IdleCall]
  /\ UNCHANGED << pc, response, svcVars, store, fetchVars, fetchObs, msgVars,
                  outVars, aiObs, cur, last, nCalls, adpVars, contentVars,
                  labelCalled >>

NextLabels ==
  \/ DriverCall \/ DriverReturn
  \/ CglList(1) \/ CglCreate(1) \/ CglRelist(1)
SpecLabels == InitLabels /\ [][NextLabels]_vars

(***************************************************************************)
(* The same driver on a mailbox that already holds a label whose name      *)
(* differs from a requested one only in case.                              *)
(***************************************************************************)
InitCase ==
  /\ pc = "driver"
  /\ response = "none"
  /\ store = << [name |-> "text only", id |-> 1] >>
  /\ calls = [c \in Callers |-> IdleCall]
  /\ cat = 1 /\ meta_list = <<>> /\ pos = 1 /\ seen_ids = {}
  /\ idx = 1 /\ rule_result = NoRule /\ text = <<>> /\ intent = "None"
  /\ confidence = 0 /\ label_ai = "AI:Unknown" /\ labels = <<>>
  /\ label_ids = <<>> /\ pass = 1
  /\ processed_details = <<>> /\ processed_count = 0
  /\ listedOnce = {} /\ listedTwice = {} /\ firstOcc = <<>> /\ reached = <<>>
  /\ getCalls = [i \in Ids |-> 0] /\ listedCats = {} /\ gotOk = <<>>
  /\ firstFailedCat = 0 /\ fetchedAfterFail = FALSE
  /\ clfCalls = 0 /\ submitted = <<>> /\ cur = NoCur /\ last = NoCur
  /\ hist = [n \in DriverNames |-> {}] /\ nCalls = 0
  /\ subject = <<>> /\ adapter = "none"
  /\ payload = NoPayload /\ content_parts = <<>>
  /\ labelCalled = FALSE
  /\ env = [idCap |-> MaxId, sigCap |-> 0, rankCap |-> MaxRank,
           watch |-> "listed"]
  /\ classifier = "loaded"
  /\ rejects \in BOOLEAN
  /\ messages_full = <<>>

SpecCase == InitCase /\ [][NextLabels]_vars

(***************************************************************************)
(* Two callers inside create_or_get_label for the same name at once.       *)
(***************************************************************************)
InitRace ==
  /\ InitCommon
  /\ pc = "race"
  /\ env = [idCap |-> MaxId, sigCap |-> 0, rankCap |-> MaxRank,
           watch |-> "listed"]
  /\ classifier = "loaded"
  /\ rejects = TRUE
  /\ messages_full = <<>>

\* caller c enters create_or_get_label, with the name the other caller uses
RaceEnter(c) ==
  /\ pc = "race"
  /\ calls[c].pc = "idle"
  /\ \E n \in DriverNames :
       /\ \A d \in Callers \ {c} : calls[d].pc = "idle" \/ calls[d].name = n
       /\ calls' = [calls EXCEPT ![c] = StartCall(n)]
  /\ UNCHANGED << pc, response, svcVars, store, fetchVars, fetchObs, msgVars,
                  outVars, aiObs, cur, last, drvObs, adpVars, contentVars,
                  labelCalled >>

NextRace ==
  \E c \in Callers : RaceEnter(c) \/ CglList(c) \/ CglCreate(c) \/ CglRelist(c)
SpecRace == InitRace /\ [][NextRace]_vars

(***************************************************************************)
(* Properties.                                                             *)
(***************************************************************************)
Count(q, x) == Cardinality({ i \in 1..Len(q) : q[i] = x })
DetailCount(id) ==
  Cardinality({ k \in 1..Len(processed_details) :
                  processed_details[k].message_id = id })
LastDetail == processed_details[Len(processed_details)]
InFetch == pc \in {"list", "scan", "fetched"}
InMessage == pc \in {"loop", "predict", "resolve", "apply"}
Named(n) == { i \in 1..Len(store) : store[i].name = n }

\* a is b with some elements left out
RECURSIVE IsSubseq(_, _)
IsSubseq(a, b) ==
  IF a = <<>> THEN TRUE
  ELSE IF b = <<>> THEN FALSE
  ELSE IF Head(a) = Head(b) THEN IsSubseq(Tail(a), Tail(b))
  ELSE IsSubseq(a, Tail(b))

IsPrefix(a, b) == Len(a) <= Len(b) /\ SubSeq(b, 1, Len(a)) = a

\* C1: when the first apply_label of a message fails with HttpError from the
\* mail service, the webhook resolves the label names again and calls
\* apply_label exactly once more; if that call succeeds the message's detail
\* lists the applied labels and has no error.
C1_RetryRecovers ==
  (last.applies # <<>> /\ last.applies[1] = "HttpError") =>
     /\ Len(last.applies) = 2
     /\ last.resolves = 2
     /\ last.applies[2] = "ok" =>
          /\ LastDetail.error = ""
          /\ LastDetail.applied_labels # <<>>

\* C2 as stated: at the end of a batch run, an identifier listed in two or
\* more categories has exactly one detail, whatever failed.
C2_ExactlyOneDetail ==
  (pc = "done" /\ response = "success") =>
     \A id \in listedTwice : DetailCount(id) = 1

\* C2 amended: no identifier ever has two details, and at the end of a batch
\* run an identifier listed in two or more categories has one detail when
\* its full message was fetched and none when it was not.
C2_AtMostOneDetail ==
  /\ \A id \in Ids : DetailCount(id) <= 1
  /\ (pc = "done" /\ response = "success") =>
        \A id \in listedTwice :
          DetailCount(id) = (IF id \in Range(messages_full) THEN 1 ELSE 0)

C2_Witness ==
  /\ pc = "done" /\ response = "success"
  /\ \E id \in listedTwice : DetailCount(id) = 1

\* C3 as stated: no identifier is fetched twice and the fetched messages are
\* in the order in which their identifiers first occur in the listings,
\* categories taken in their fixed order.
C3_OrderedByFirstOccurrence ==
  InFetch =>
     /\ \A id \in Ids : getCalls[id] <= 1 /\ Count(messages_full, id) <= 1
     /\ IsSubseq(messages_full, firstOcc)

\* C3 amended: no identifier is fetched twice or yields two messages, an
\* identifier in the seen set is exactly one that was fetched before, and
\* the fetched messages are in the order in which the scan reached their
\* identifiers; that is the order of first occurrence in the listings as
\* long as no fetch has failed.
C3_FetchOnceInScanOrder ==
  InFetch =>
     /\ \A id \in Ids : getCalls[id] <= 1 /\ Count(messages_full, id) <= 1
     /\ seen_ids = { id \in Ids : getCalls[id] = 1 }
     /\ seen_ids = Range(reached)
     /\ IsSubseq(messages_full, reached)
     /\ messages_full = reached => IsPrefix(messages_full, firstOcc)

C3_Witness ==
  /\ pc = "scan" /\ cat > 1
  /\ Len(messages_full) >= 2
  /\ meta_list[pos] = messages_full[1]
  /\ getCalls[meta_list[pos]] = 1
  /\ firstFailedCat = 0

\* C4: every fetched message has exactly one detail, in fetch order; the
\* detail is an error entry exactly when processing that message raised;
\* the next message starts from fresh locals; and once the message list is
\* there the response is never the error response.
C4_OneDetailPerMessage ==
  /\ InMessage => Len(processed_details) = idx - 1 /\ idx <= Len(messages_full)
  /\ (pc = "done" /\ response = "success") =>
        Len(processed_details) = Len(messages_full)
  /\ \A k \in 1..Len(processed_details) :
        processed_details[k].message_id = messages_full[k]
  /\ processed_details # <<>> => (LastDetail.error # "" <=> last.raised)
  /\ pc = "loop" => label_ids = <<>> /\ pass = 1 /\ calls[1] = IdleCall
  /\ response = "error500" => messages_full = <<>>

C4_Witness ==
  /\ pc = "done" /\ response = "success"
  /\ Len(processed_details) = 2
  /\ processed_details[1].error # ""
  /\ processed_details[2].error = ""

\* C5: get_messages_for_all_categories never raises; after a failure in
\* category k nothing more is done in k, every later category is listed,
\* and what was fetched before stays in the list.
C5_CategoryFailureSkipped ==
  /\ response = "error500" => listedCats = {}
  /\ pc = "list" => listedCats = 1..(cat - 1)
  /\ pc = "scan" => listedCats = 1..cat
  /\ pc = "fetched" => listedCats = 1..Len(category_labels)
  /\ (pc \in {"list", "scan"} /\ firstFailedCat # 0) => cat > firstFailedCat
  /\ InFetch => messages_full = gotOk

C5_Witness ==
  /\ pc = "fetched"
  /\ firstFailedCat = 1
  /\ fetchedAfterFail

\* C6: under sequential calls the label store never has two labels of one
\* name, create is only reached for a name the listing did not have, and
\* every call for a name returns the identifier the first call returned.
C6_NoDuplicateLabel ==
  /\ \A i, j \in 1..Len(store) : store[i].name = store[j].name => i = j
  /\ calls[1].pc = "create" => Named(calls[1].name) = {}
  /\ calls[1].pc = "returned" =>
        /\ \E i \in Named(calls[1].name) : store[i].id = calls[1].result
        /\ hist[calls[1].name] \subseteq {calls[1].result}
  /\ \A n \in DriverNames : Cardinality(hist[n]) <= 1

C6_Witness ==
  /\ calls[1].pc = "returned"
  /\ calls[1].creates = 0
  /\ calls[1].result \in hist[calls[1].name]
  /\ Len(store) = 2

\* C7: with two concurrent callers for one name and a mail service that
\* rejects a second create, at most one label of that name exists; a caller
\* that returns returns its identifier; a caller whose create was rejected
\* lists exactly once more; a caller raises only after a transient failure
\* (a failed listing, or a failed create with the name still absent); with
\* conflicts as the only failures both callers return the one identifier.
C7_RaceResolved ==
  /\ \A c \in Callers :
       /\ calls[c].pc # "idle" => Cardinality(Named(calls[c].name)) <= 1
       /\ calls[c].pc = "returned" =>
            \E i \in Named(calls[c].name) : store[i].id = calls[c].result
       /\ calls[c].pc = "raised" =>
            calls[c].transient /\ calls[c].exc = "Exception"
       /\ (calls[c].pc \in {"returned", "raised"} /\ calls[c].conflict) =>
            calls[c].lists = 2 /\ calls[c].creates = 1
  /\ (\A c \in Callers : /\ calls[c].pc \in {"returned", "raised"}
                         /\ ~calls[c].transient) =>
        /\ \A c \in Callers : calls[c].pc = "returned"
        /\ calls[1].result = calls[2].result
        /\ Cardinality(Named(calls[1].name)) = 1

C7_Witness ==
  /\ \A c \in Callers : calls[c].pc = "returned" /\ ~calls[c].transient
  /\ \E c \in Callers : calls[c].conflict
  /\ \E c \in Callers : calls[c].creates = 1 /\ ~calls[c].conflict

\* the label names of the rule, each with the condition under which it is
\* in the list, in list order
RuleLabelNames ==
  << "Contains Link", "Text Only", "Potential Phishing", "Suspicious Content",
     "Urgent Language", "Money Related" >>
RuleLabelApplies(n, r) ==
  CASE n = "Contains Link"      -> r["link"]
    [] n = "Text Only"          -> ~r["link"]
    [] n = "Potential Phishing" -> r["suspicious"] /\ r["money_related"]
    [] n = "Suspicious Content" -> r["suspicious"] /\ ~r["money_related"]
    [] n = "Urgent Language"    -> r["urgent_language"]
    [] n = "Money Related"      -> r["money_related"]
RECURSIVE RuleLabelsFrom(_, _)
RuleLabelsFrom(names, r) ==
  IF names = <<>> THEN <<>>
  ELSE (IF RuleLabelApplies(Head(names), r) THEN << Head(names) >> ELSE <<>>)
       \o RuleLabelsFrom(Tail(names), r)
IntentLabelPairs ==
  { << "newsletter", "AI:Newsletter" >>, << "promotional", "AI:Promotional" >>,
    << "personal", "AI:Personal" >>, << "work", "AI:Work" >>,
    << "notification", "AI:Notification" >>, << "spam", "AI:Spam" >>,
    << "phishing", "AI:Phishing" >>, << "important", "AI:Important" >>,
    << "urgent", "AI:Urgent" >>, << "social", "AI:Social" >>,
    << "shopping", "AI:Shopping" >>, << "marketing", "AI:Marketing" >>,
    << "unknown", "AI:Unknown" >> }

\* C8: the applied label list of a message is the rule labels in the stated
\* order followed by exactly one AI label: AI:Unknown with no classifier
\* call when the flattened text is blank, else the capitalized intent.
C8_LabelList ==
  (processed_details # <<>> /\ LastDetail.error = "") =>
     LET d == LastDetail IN
       /\ d.applied_labels =
            RuleLabelsFrom(RuleLabelNames, d.rule_classification) \o << d.ai_label >>
       /\ last.blank =>
            d.ai_label = "AI:Unknown" /\ clfCalls = 0 /\ last.predict = "skipped"
       /\ ~last.blank => << d.intent, d.ai_label >> \in IntentLabelPairs

C8_Witness ==
  /\ processed_details # <<>>
  /\ LastDetail.applied_labels =
       << "Contains Link", "Potential Phishing", "Urgent Language",
          "Money Related", "AI:Spam" >>

\* C9: for an empty or whitespace-only text, or with no classifier loaded,
\* predict_intent returns ("unknown", 0.0) and the classifier is not called.
C9_NoCallWhenBlankOrUnavailable ==
  (pc \in {"intent_returned", "intent_raised"}
     /\ (AllWhitespace(text) \/ classifier = "None")) =>
       /\ pc = "intent_returned"
       /\ intent = "unknown" /\ confidence = 0
       /\ clfCalls = 0

C9_Witness ==
  /\ pc = "intent_returned"
  /\ classifier = "loaded"
  /\ Len(text) = 2 /\ AllWhitespace(text)
  /\ clfCalls = 0

\* C10: a failed classifier call leaves predict_intent returning
\* ("unknown", 0.0); the message goes on to label resolution with the rule
\* labels and AI:Unknown, its detail has no error when the label calls
\* succeed, and any error it has is a label error.
C10_IntentFailureContained ==
  /\ (InMessage /\ cur.predict = "failed") =>
        /\ pc \in {"resolve", "apply"}
        /\ intent = "unknown" /\ confidence = 0 /\ label_ai = "AI:Unknown"
        /\ labels = RuleLabelsFrom(RuleLabelNames, rule_result)
  /\ (processed_details # <<>> /\ last.predict = "failed") =>
        /\ response # "error500"
        /\ LastDetail.error \in
             {"", "Error creating/getting label", "Error applying labels"}
        /\ last.applies = << "ok" >> => LastDetail.error = ""
        /\ LastDetail.error = "" =>
             /\ LastDetail.ai_label = "AI:Unknown"
             /\ LastDetail.intent = "unknown" /\ LastDetail.confidence = 0
             /\ LastDetail.applied_labels =
                  RuleLabelsFrom(RuleLabelNames, LastDetail.rule_classification)
                    \o << "AI:Unknown" >>

C10_Witness ==
  /\ processed_details # <<>>
  /\ last.predict = "failed"
  /\ LastDetail.error = ""
  /\ LastDetail.rule_classification["suspicious"]

\* the text that is left of t when the whitespace before its first and
\* after its last non-whitespace character is taken away
Trimmed(t) ==
  LET first == CHOOSE i \in 1..(Len(t) + 1) :
                 /\ \A k \in 1..(i - 1) : t[k] \in Whitespace
                 /\ i <= Len(t) => t[i] \notin Whitespace
      final == CHOOSE j \in 0..Len(t) :
                 /\ \A k \in (j + 1)..Len(t) : t[k] \in Whitespace
                 /\ j >= 1 => t[j] \notin Whitespace
  IN [i \in 1..(IF final < first THEN 0 ELSE final - first + 1)
        |-> t[first + i - 1]]

\* C12: the text predict_intent hands to the classifier is the trimmed
\* input when that has at most 1000 characters, and otherwise its first
\* 1000 characters followed by "..."; it never has more than 1003
\* characters.
C12_SubmittedText ==
  (pc \in {"intent_returned", "intent_raised"} /\ clfCalls = 1) =>
     LET trimmed == Trimmed(text) IN
       /\ Len(trimmed) <= 1000 =>
             /\ Len(submitted) = Len(trimmed)
             /\ \A i \in 1..Len(trimmed) : submitted[i] = trimmed[i]
       /\ Len(trimmed) > 1000 =>
             /\ Len(submitted) = 1003
             /\ \A i \in 1..1000 : submitted[i] = trimmed[i]
             /\ \A i \in 1001..1003 : submitted[i] = "."
       /\ Len(submitted) <= 1003

C12_Witness ==
  /\ pc = "intent_returned" /\ clfCalls = 1
  /\ Len(text) > TextCap + 1
  /\ text[1] \in Whitespace
  /\ Len(submitted) = TextCap + 3
  /\ submitted[TextCap] = " "

\* the first TextCap characters of t and the marker, when t is longer
Capped(t) ==
  IF Len(t) <= TextCap THEN t
  ELSE [i \in 1..(TextCap + 3) |-> IF i <= TextCap THEN t[i] ELSE "."]

\* C11: the sentiment and the priority adapter follow the contract of
\* predict_intent: with no classifier, or with blank input (sentiment: an
\* empty or whitespace-only text; priority: an empty text and an empty
\* subject) they return their fallback with confidence 0 and do not call
\* the classifier; what they submit is capped at 1000 characters plus the
\* marker; a failed classifier call gives the fallback.
C11_SiblingContract ==
  pc \in {"adapter_returned", "adapter_raised"} =>
    LET fallback == IF adapter = "sentiment" THEN "neutral" ELSE "normal"
        blank == IF adapter = "sentiment" THEN AllWhitespace(text)
                 ELSE text = <<>> /\ subject = <<>>
        input == IF adapter = "sentiment" THEN Trimmed(text)
                 ELSE Trimmed(SubjectPrefix \o subject \o SubjectSeparator
                              \o text)
    IN /\ pc = "adapter_returned"
       /\ (classifier = "None" \/ blank) =>
             clfCalls = 0 /\ intent = fallback /\ confidence = 0
       /\ clfCalls = 1 => submitted = Capped(input)
       /\ cur.predict = "failed" => intent = fallback /\ confidence = 0

\* the part of tree t at path p: a path is the sequence of child positions
\* that leads from the root to the part
RECURSIVE NodeAt(_, _)
NodeAt(t, p) == IF p = <<>> THEN t ELSE NodeAt(t.parts[Head(p)], Tail(p))

RECURSIVE PathsOf(_)
PathsOf(t) ==
  { <<>> } \cup UNION { { << i >> \o q : q \in PathsOf(t.parts[i]) } :
                         i \in 1..Len(t.parts) }

\* p comes before q in a pre-order traversal
Before(p, q) ==
  \E k \in 0..Len(p) :
     /\ k <= Len(q)
     /\ \A i \in 1..k : p[i] = q[i]
     /\ \/ k = Len(p) /\ k < Len(q)
        \/ k < Len(p) /\ k < Len(q) /\ p[k + 1] < q[k + 1]

\* the plain-text and html-text parts of t that carry data that decodes
DecodableLeaves(t) ==
  { p \in PathsOf(t) :
      /\ NodeAt(t, p).mimeType \in {"text/plain", "text/html"}
      /\ NodeAt(t, p).data.present
      /\ NodeAt(t, p).data.valid }

\* C13: for a valid body-part tree extract_content_parts returns one
\* fragment for each plain-text or html-text leaf whose data decodes, in
\* pre-order, and nothing for any other part.
C13_PreOrderLeaves ==
  pc \in {"classified", "flattened"} =>
    LET leaves == DecodableLeaves(payload) IN
      /\ Len(content_parts) = Cardinality(leaves)
      /\ \A p \in leaves :
           content_parts[1 + Cardinality({ q \in leaves : Before(q, p) })]
             = NodeAt(payload, p).data.text

C13_Witness ==
  /\ pc = "classified"
  /\ Len(payload.parts) = 2
  /\ payload.parts[1].parts # <<>>
  /\ payload.parts[1].parts[1].mimeType = "text/html"
  /\ payload.parts[2].mimeType = "text/plain"
  /\ content_parts = << << "urgent" >>, << "x" >> >>

Flags == {"text", "link", "suspicious", "urgent_language", "money_related"}

\* fragment c trips the flag
Trips(flag, c) ==
  CASE flag = "text" -> \E k \in 1..Len(c) : c[k] \notin Whitespace
    [] flag = "link" -> has_links(c)
    [] flag = "suspicious" -> is_suspicious_content(c)
    [] flag = "urgent_language" -> has_urgent_language(c)
    [] flag = "money_related" -> has_money_related_content(c)

Orders(n) ==
  { f \in [1..n -> 1..n] : \A i, j \in 1..n : f[i] = f[j] => i = j }

\* C14: each flag of classify_email_content is the OR over the fragments of
\* "this fragment trips the flag"; the result is the same for every order
\* of the fragments, and every flag is false when there is no fragment.
C14_OrAggregation ==
  pc \in {"classified", "flattened"} =>
    /\ \A flag \in Flags :
         rule_result[flag] =
           (\E i \in 1..Len(content_parts) : Trips(flag, content_parts[i]))
    /\ \A f \in Orders(Len(content_parts)) :
         ClassifyParts([i \in 1..Len(content_parts) |-> content_parts[f[i]]],
                       NoRule) = rule_result
    /\ content_parts = <<>> => rule_result = NoRule

C14_Witness ==
  /\ pc = "classified"
  /\ Len(content_parts) = 2
  /\ is_suspicious_content(content_parts[1])
  /\ ~Trips("text", content_parts[2])
  /\ rule_result = [NoRule EXCEPT !.text = TRUE, !.suspicious = TRUE]

\* C15: the fragment of an html-text part that classify_email_content
\* looks at is the decoded body without its tags, with whitespace runs
\* collapsed and trimmed, so what stands inside a tag trips no signal, and
\* it is the text get_message_content extracts.
C15_HtmlStripped ==
  (pc \in {"classified", "flattened"} /\ IsHtml(payload.mimeType)) =>
    LET clean == Strip(CollapseSpace(StripTags(payload.data.text))) IN
      /\ content_parts = << clean >>
      /\ rule_result = ClassifyParts(<< clean >>, NoRule)
      /\ pc = "flattened" => text = clean

\* C16: no name-to-identifier mapping is kept between resolutions: a call
\* of create_or_get_label starts knowing nothing and lists first; it goes
\* on to create only when that listing holds no label of exactly the
\* requested name (a name that differs in case does not count); and every
\* create comes after a listing of the same call.
C16_FreshListing ==
  [][\A c \in Callers :
       /\ (calls[c].pc = "idle" /\ calls'[c].pc # "idle") =>
             /\ calls'[c].pc = "list"
             /\ calls'[c].lists = 0 /\ calls'[c].creates = 0
             /\ calls'[c].result = 0
       /\ (calls[c].pc = "list" /\ calls'[c].pc # "list") =>
             /\ calls'[c].lists = 1
             /\ calls'[c].pc = "create" <=>
                   /\ \A i \in 1..Len(store) : store[i].name # calls[c].name
                   /\ ~calls'[c].transient
             /\ calls'[c].pc = "returned" =>
                   \E i \in 1..Len(store) :
                      /\ store[i].name = calls[c].name
                      /\ store[i].id = calls'[c].result
       /\ calls'[c].creates > calls[c].creates =>
             /\ calls[c].pc = "create" /\ calls[c].lists >= 1
             /\ calls'[c].creates = calls[c].creates + 1
       /\ (calls'[c].pc = "create" /\ calls[c].pc # "create") =>
             calls[c].pc = "list"]_vars

C16_Witness ==
  /\ nCalls >= 2
  /\ hist["AI:Unknown"] # {}
  /\ calls[1].name = "Text Only"
  /\ calls[1].pc = "create" /\ calls[1].lists = 1
  /\ \E i \in 1..Len(store) : store[i].name = "text only"

\* the entries of the detail list that carry no error
Clean == { k \in 1..Len(processed_details) : processed_details[k].error = "" }

\* C18: all through a batch run the processed count is the number of detail
\* entries without an error and the number of detail entries is the number
\* of messages handled so far; in the summary it is the number of fetched
\* messages; a batch without fetched messages reports 0 and an empty list
\* and makes no label call.
C18_CountsAgree ==
  /\ processed_count = Cardinality(Clean)
  /\ pc \in {"start", "list", "scan", "fetched"} =>
        processed_details = <<>> /\ ~labelCalled
  /\ InMessage => Len(processed_details) = idx - 1
  /\ (pc = "done" /\ response = "success") =>
        /\ Len(processed_details) = Len(messages_full)
        /\ \A k \in 1..Len(messages_full) :
              processed_details[k].message_id = messages_full[k]
        /\ messages_full = <<>> =>
              /\ processed_count = 0 /\ processed_details = <<>>
              /\ ~labelCalled /\ store = <<>>

C18_Witness ==
  /\ pc = "done" /\ response = "success"
  /\ Len(processed_details) = 2
  /\ processed_details[1].error # ""
  /\ processed_count = 1
  /\ labelCalled

\* no more than one create and two listings in a create_or_get_label call,
\* no more than two resolution passes and two apply_label attempts for a
\* message
Bounded ==
  /\ \A c \in Callers : calls[c].creates <= 1 /\ calls[c].lists <= 2
  /\ pass <= 2
  /\ cur.resolves <= 2 /\ Len(cur.applies) <= 2
  /\ last.resolves <= 2 /\ Len(last.applies) <= 2

\* how far a batch run has come, as a number that is bounded above: the
\* phase first; inside the fetch the category, then the position in its
\* listing; inside the message loop the message, then the pass, the stage
\* of the pass, the labels resolved so far and the stage of the running
\* create_or_get_label call
Phase ==
  CASE pc = "start" -> 0
    [] pc \in {"list", "scan"} -> 1
    [] pc = "fetched" -> 2
    [] InMessage -> 3
    [] pc = "done" -> 4

CallStage(c) ==
  CASE calls[c].pc = "idle" -> 0
    [] calls[c].pc = "list" -> 1
    [] calls[c].pc = "create" -> 2
    [] calls[c].pc = "relist" -> 3
    [] calls[c].pc \in {"returned", "raised"} -> 4

MessageStage ==
  CASE pc = "loop" -> 0
    [] pc = "predict" -> 1
    [] pc = "resolve" -> 2
    [] pc = "apply" -> 3

Progress ==
  Phase * 1000 * (Len(messages_full) + 2)
  + (IF Phase = 1
       THEN cat * (MaxListLen + 2) + (IF pc = "scan" THEN pos ELSE 0)
     ELSE IF Phase = 3
       THEN idx * 1000 + pass * 200 + MessageStage * 40
            + Len(label_ids) * 5 + CallStage(1)
     ELSE 0)

\* C17: recovery is bounded (Bounded holds all through a batch run), every
\* message's outcome is recorded before the next message is taken up, and
\* the batch run terminates: until it is done it can take a step, and
\* every step takes it forward in Progress, which cannot grow for ever.
C17_BoundedRecovery ==
  /\ [](/\ Bounded
        /\ InMessage => Len(processed_details) = idx - 1
        /\ pc # "done" => ENABLED Next
        /\ Progress <= 4000 * (MaxId + 2))
  /\ [][Progress' > Progress]_vars

C17_Witness ==
  /\ InMessage
  /\ Len(processed_details) = 1
  /\ processed_details[1].error = "Error applying labels"
  /\ Len(last.applies) = 1
  /\ calls[1].pc = "raised"
  /\ calls[1].lists = 2 /\ calls[1].creates = 1
====
